---------------------------- MODULE Spec2Model ----------------------------
(***************************************************************************)
(* Model of the MP3 robotics planner: the best-first search of             *)
(* src/search.py, the configuration-space builder of src/transform.py and  *)
(* the geometry kernel of src/geometry.py.                                 *)
(*                                                                         *)
(* Real-valued quantities are kept exact: a distance d is carried as the   *)
(* rational d^2 = num/den, and every comparison against the margin         *)
(* granularity/sqrt(2) is decided by squaring, so no rounding is modelled. *)
(***************************************************************************)
EXTENDS Integers, Sequences, FiniteSets, TLC

VARIABLES
    \* ---- search.py: astar ----
    cost,           \* the maze's edge costs, keyed by unordered node pair (0: no edge)
    goals,          \* the set of goal states of the maze
    hval,           \* the heuristic value each state carries
    visited_states, \* dict: state -> (predecessor, dist_from_start)
    frontier,       \* the heap, as the set of its entries
    ctr,            \* number of MazeState objects created so far (tiebreak index)
    goal_reached,   \* local of astar
    goal,           \* local of astar
    state,          \* local of astar: the entry popped last
    pc,             \* where astar is: "loop", or how it ended
    path,           \* the list astar returned
    \* ---- geometry.py: the segment kernel ----
    segA, segB,     \* the two segments under test, ((x1, y1), (x2, y2))
    isect,          \* do_segments_intersect(segA, segB) and (segB, segA)
    sdist,          \* segment_distance(segA, segB), as its square num/den
    spc,            \* "input", or "done" once both were computed
    \* ---- geometry.py: the collision predicates at two granularities ----
    ialien,         \* the agent: its centroid and shape
    iwalls,         \* the wall list, [(startx, starty, endx, endy), ...]
    igran,          \* the two granularities (g1, g2), g1 <= g2
    iblocked,       \* whether the pose is blocked at g1 and at g2
    ipc,            \* "input", or "done" once both were computed
    \* ---- transform.py: transformToMaze ----
    balien,         \* the alien argument: its centroid and shape
    bgoals,         \* the goals argument, [(x, y, r), ...]
    bwalls,         \* the walls argument
    bwindow,        \* the window argument, (width, height)
    bgran,          \* the granularity argument
    maze,           \* the numpy array, keyed by index triple
    bx, by,         \* the loop variables x and y
    config,         \* the local config, as last assigned
    bpc,            \* "loop", "start", "done" or "IndexError"
    \* ---- geometry.py: is_alien_within_window on a capsule and its transpose ----
    walien,         \* a capsule: its centroid and shape
    wwindow,        \* the window, (width, height)
    wgran,          \* the granularity
    wwithin,        \* the results for the capsule and for its transpose
    wpc             \* "input", or "done" once both were computed

searchVars == <<cost, goals, hval, visited_states, frontier, ctr,
                goal_reached, goal, state, pc, path>>

segVars == <<segA, segB, isect, sdist, spc>>

inflVars == <<ialien, iwalls, igran, iblocked, ipc>>

buildVars == <<balien, bgoals, bwalls, bwindow, bgran, maze, bx, by, config, bpc>>

winVars == <<walien, wwindow, wgran, wwithin, wpc>>

vars == <<searchVars, segVars, inflVars, buildVars, winVars>>

-----------------------------------------------------------------------------
(* Bounds *)

\* Arbitrary mazes are drawn over the states 0 .. NumNodes-1.
NumNodes == 3
\* An edge costs 1 (a translation) or MorphCost (a change of morphology).
MorphCost == 3
\* Segment endpoints are drawn from the integer points of 0..MaxCoord squared.
MaxCoord == 3
\* Granularities of the inflation check are drawn from 0..MaxGran.
MaxGran == 3

-----------------------------------------------------------------------------
(* search.py *)

\* The predecessor recorded for the starting state (None).
NoPred == -1

\* The starting state returned by maze.getStart().
starting_state == 0

\* States: 0..8 are the cells of a 3 x 3 grid, cell (x, y) being 3*x + y;
\* arbitrary mazes use the first NumNodes of them.
GridNodes == 0 .. 8
SmallNodes == 0 .. (NumNodes - 1)
Pairs == {p \in GridNodes \X GridNodes : p[1] < p[2]}
SmallPairs == {p \in SmallNodes \X SmallNodes : p[1] < p[2]}

Pair(a, b) == IF a < b THEN <<a, b>> ELSE <<b, a>>
EdgeCost(a, b) == IF Pair(a, b) \in DOMAIN cost THEN cost[Pair(a, b)] ELSE 0

\* The obstacle-free 4-connected 3 x 3 grid with unit costs.
GridAdjacent(a, b) ==
    /\ a \in 0..8 /\ b \in 0..8
    /\ \/ /\ (a \div 3) = (b \div 3)
          /\ ((a % 3) = (b % 3) + 1 \/ (b % 3) = (a % 3) + 1)
       \/ /\ (a % 3) = (b % 3)
          /\ ((a \div 3) = (b \div 3) + 1 \/ (b \div 3) = (a \div 3) + 1)
GridCost == [p \in Pairs |-> IF GridAdjacent(p[1], p[2]) THEN 1 ELSE 0]

\* state.is_goal()
is_goal(n) == n \in goals

\* The states of the maze.
Nodes == {p[1] : p \in DOMAIN cost} \cup {p[2] : p \in DOMAIN cost}

\* The states adjacent to n.
Adjacent(n) == {m \in Nodes : EdgeCost(n, m) > 0}

RECURSIVE HopsFrom(_, _, _)
\* Number of edges from the set `layer` (at distance k) to the nearest goal,
\* having already seen `seen`; -1 when no goal can be reached.
HopsFrom(layer, seen, k) ==
    IF layer \cap goals # {} THEN k
    ELSE LET next == UNION {Adjacent(n) : n \in layer} \ seen
         IN  IF next = {} THEN -1
             ELSE HopsFrom(next, seen \cup next, k + 1)

\* Breadth-first minimum number of edges from n to any goal (-1: unreachable).
Hops(n) == HopsFrom({n}, {n}, 0)

\* state.compute_heuristic(): an admissible lower bound on the remaining cost
\* (every edge costs at least 1), or 0 when the state provides none.
compute_heuristic(n, use_heuristic) ==
    IF use_heuristic /\ Hops(n) >= 0 THEN Hops(n) ELSE 0

\* MazeState.__lt__: priority first, creation order on ties.
Less(e1, e2) ==
    LET f1 == e1.d + hval[e1.s]
        f2 == e2.d + hval[e2.s]
    IN  f1 < f2 \/ (f1 = f2 /\ e1.idx < e2.idx)

\* frontier[0], the least entry of the heap.
HeapMin(fr) == CHOOSE e \in fr : \A o \in fr \ {e} : Less(e, o)

RECURSIVE SortedSeq(_)
\* The members of a set of states in ascending order.
SortedSeq(S) ==
    IF S = {} THEN <<>>
    ELSE LET m == CHOOSE x \in S : \A y \in S : x <= y
         IN  <<m>> \o SortedSeq(S \ {m})

\* state.get_neighbors(): a new MazeState per adjacent state, its
\* dist_from_start the popped entry's plus the edge cost.
get_neighbors(e, c) ==
    LET ns == SortedSeq(Adjacent(e.s))
    IN  [i \in 1..Len(ns) |->
            [s |-> ns[i], d |-> e.d + EdgeCost(e.s, ns[i]), idx |-> c + i]]

\* Line 79: the neighbor is recorded and reaches it more cheaply.
ImprovesAlways(vis, nbr) == nbr.s \in DOMAIN vis
\* The comparison of line 79 with <= in place of <.
ImprovesOrEqual(vis, nbr) == nbr.s \in DOMAIN vis /\ nbr.d <= vis[nbr.s][2]
Improves(vis, nbr) == nbr.s \in DOMAIN vis /\ nbr.d < vis[nbr.s][2]

\* Line 82: the neighbor has never been recorded.
Unseen(vis, nbr) == nbr.s \notin DOMAIN vis

\* A record that names the neighbor itself as its predecessor.
RecordSelf(vis, nbr, pred) ==
    [n \in DOMAIN vis \cup {nbr.s} |->
        IF n = nbr.s THEN <<nbr.s, nbr.d>> ELSE vis[n]]

\* visited_states[nbr] = (state, nbr.dist_from_start)
Record(vis, nbr, pred) ==
    [n \in DOMAIN vis \cup {nbr.s} |->
        IF n = nbr.s THEN <<pred, nbr.d>> ELSE vis[n]]

RECURSIVE ProcessNbrs(_, _, _, _, _)
\* Lines 77-85: the for loop over nbrs, from index i, returning the
\* visited map and the frontier it leaves.
ProcessNbrs(nbrs, i, pred, vis, fr) ==
    IF i > Len(nbrs) THEN [vis |-> vis, fr |-> fr]
    ELSE IF Improves(vis, nbrs[i]) \/ Unseen(vis, nbrs[i])
         THEN ProcessNbrs(nbrs, i + 1, pred,
                          Record(vis, nbrs[i], pred), fr \cup {nbrs[i]})
         ELSE ProcessNbrs(nbrs, i + 1, pred, vis, fr)

RECURSIVE Walk(_, _, _)
\* Lines 98-103: the states appended by backtrack, goal first; `fuel`
\* bounds the walk so that a cyclic predecessor chain is detected.
Walk(vis, s, fuel) ==
    IF vis[s][1] = NoPred \/ fuel = 0 THEN <<s>>
    ELSE <<s>> \o Walk(vis, vis[s][1], fuel - 1)

Reverse(sq) == [i \in 1..Len(sq) |-> sq[Len(sq) + 1 - i]]

\* A walk that never meets a None predecessor.
BacktrackNeverEnds(vis, s) == FALSE

\* The while loop of backtrack ends: the chain reaches a None predecessor.
BacktrackEnds(vis, s) ==
    LET w == Walk(vis, s, Cardinality(DOMAIN vis))
    IN  vis[w[Len(w)]][1] = NoPred

BacktrackNoReverse(vis, s) == Walk(vis, s, Cardinality(DOMAIN vis))
\* backtrack(visited_states, current_state)
backtrack(vis, s) == Reverse(Walk(vis, s, Cardinality(DOMAIN vis)))

\* Line 69, the loop condition, evaluated left to right.
LoopGuard ==
    /\ (~goal_reached \/ (frontier # {} /\ ~is_goal(HeapMin(frontier).s)))
    /\ frontier # {}

\* frontier[0] on an empty heap raises IndexError.
GuardRaises == goal_reached /\ frontier = {}

\* Lines 48-67: astar up to the loop.
InitAstar ==
    /\ visited_states = [n \in {starting_state} |-> <<NoPred, 0>>]
    /\ frontier = {[s |-> starting_state, d |-> 0, idx |-> 0]}
    /\ ctr = 0
    /\ goal_reached = FALSE
    /\ goal = NoPred
    /\ state = [s |-> NoPred, d |-> 0, idx |-> 0]
    /\ pc = "loop"
    /\ path = <<>>

\* The mazes the search is run on.
InitMaze ==
    \/ /\ cost \in [SmallPairs -> {0, 1, MorphCost}]
       /\ goals \in SUBSET SmallNodes
    \/ /\ cost = GridCost
       /\ goals = {8}

InitSearch ==
    /\ InitMaze
    /\ \E use_heuristic \in BOOLEAN :
          hval = [n \in Nodes |-> compute_heuristic(n, use_heuristic)]
    /\ InitAstar

\* Lines 70-85: one iteration of the while loop.
Iterate ==
    /\ pc = "loop"
    /\ LoopGuard
    /\ \E e \in {HeapMin(frontier)} :
       \E fr1 \in {IF is_goal(e.s) THEN frontier ELSE frontier \ {e}} :
       \E nbrs \in {get_neighbors(e, ctr)} :
       \E r \in {ProcessNbrs(nbrs, 1, e.s, visited_states, fr1)} :
           /\ state' = e
           /\ goal_reached' = (goal_reached \/ is_goal(e.s))
           /\ goal' = IF is_goal(e.s) THEN e.s ELSE goal
           /\ ctr' = ctr + Len(nbrs)
           /\ visited_states' = r.vis
           /\ frontier' = r.fr
    /\ UNCHANGED <<cost, goals, hval, pc, path>>
    /\ UNCHANGED <<segVars, inflVars, buildVars, winVars>>

\* Return, but with the empty list of line 63 where line 91 returns None.
ReturnEmptyList ==
    /\ pc = "loop"
    /\ ~LoopGuard
    /\ pc' = IF GuardRaises THEN "IndexError"
             ELSE IF frontier = {} THEN "path"
             ELSE IF BacktrackEnds(visited_states, goal) THEN "path"
             ELSE "hang"
    /\ path' = IF ~GuardRaises /\ frontier # {}
                  /\ BacktrackEnds(visited_states, goal)
               THEN backtrack(visited_states, goal)
               ELSE <<>>
    /\ UNCHANGED <<cost, goals, hval, visited_states, frontier, ctr,
                   goal_reached, goal, state>>
    /\ UNCHANGED <<segVars, inflVars, buildVars, winVars>>

\* Lines 87-91: the loop has ended; return the path or None.
Return ==
    /\ pc = "loop"
    /\ ~LoopGuard
    /\ pc' = IF GuardRaises THEN "IndexError"
             ELSE IF frontier = {} THEN "None"
             ELSE IF BacktrackEnds(visited_states, goal) THEN "path"
             ELSE "hang"
    /\ path' = IF ~GuardRaises /\ frontier # {}
                  /\ BacktrackEnds(visited_states, goal)
               THEN backtrack(visited_states, goal)
               ELSE <<>>
    /\ UNCHANGED <<cost, goals, hval, visited_states, frontier, ctr,
                   goal_reached, goal, state>>
    /\ UNCHANGED <<segVars, inflVars, buildVars, winVars>>

NextSearch == Iterate \/ Return


-----------------------------------------------------------------------------
(* geometry.py: the segment kernel *)

RECURSIVE GCD(_, _)
GCD(a, b) == IF b = 0 THEN a ELSE GCD(b, a % b)

\* A non-negative rational in lowest terms, used for squared distances.
Rat(n, d) == [num |-> n \div GCD(n, d), den |-> d \div GCD(n, d)]
RatLeq(a, b) == a.num * b.den <= b.num * a.den
RatMin(a, b) == IF RatLeq(a, b) THEN a ELSE b

\* distance(point) squared: point[0]**2 + point[1]**2.
distance(v) == v[1] * v[1] + v[2] * v[2]

\* The perpendicular branch is taken only when both dot products are
\* strictly positive (the cosines have the sign of the dot products).
FootInside(dot_ab_ac, dot_ba_bc) == dot_ab_ac > 0 /\ dot_ba_bc > 0

\* point_segment_distance(point, segment), squared.  The segment is not
\* degenerate (len_ab > 0), as the divisions by len_ab require.
point_segment_distance(point, segment) ==
    LET ab == <<segment[2][1] - segment[1][1], segment[2][2] - segment[1][2]>>
        ac == <<point[1] - segment[1][1], point[2] - segment[1][2]>>
        dot_ab_ac == ab[1] * ac[1] + ab[2] * ac[2]
        ba == <<segment[1][1] - segment[2][1], segment[1][2] - segment[2][2]>>
        bc == <<point[1] - segment[2][1], point[2] - segment[2][2]>>
        dot_ba_bc == ba[1] * bc[1] + ba[2] * bc[2]
        cross_prod == ab[1] * ac[2] - ab[2] * ac[1]
    IN  IF FootInside(dot_ab_ac, dot_ba_bc)
        THEN Rat(cross_prod * cross_prod, distance(ab))
        ELSE RatMin(Rat(distance(ac), 1), Rat(distance(bc), 1))

onSegmentStrict(p, q, r) ==
    LET maxx == IF p[1] >= r[1] THEN p[1] ELSE r[1]
        minx == IF p[1] <= r[1] THEN p[1] ELSE r[1]
        maxy == IF p[2] >= r[2] THEN p[2] ELSE r[2]
        miny == IF p[2] <= r[2] THEN p[2] ELSE r[2]
    IN  q[1] < maxx /\ q[1] > minx /\ q[2] < maxy /\ q[2] > miny
\* onSegment(p, q, r): q lies in the bounding box of p and r.
onSegment(p, q, r) ==
    LET maxx == IF p[1] >= r[1] THEN p[1] ELSE r[1]
        minx == IF p[1] <= r[1] THEN p[1] ELSE r[1]
        maxy == IF p[2] >= r[2] THEN p[2] ELSE r[2]
        miny == IF p[2] <= r[2] THEN p[2] ELSE r[2]
    IN  q[1] <= maxx /\ q[1] >= minx /\ q[2] <= maxy /\ q[2] >= miny

orientationNoCollinear(p, q, r) ==
    LET val == (q[2] - p[2]) * (r[1] - q[1]) - (q[1] - p[1]) * (r[2] - q[2])
    IN  IF val > 0 THEN 1 ELSE 2
\* orientation(p, q, r): 0 collinear, 1 clockwise, 2 counterclockwise.
orientation(p, q, r) ==
    LET val == (q[2] - p[2]) * (r[1] - q[1]) - (q[1] - p[1]) * (r[2] - q[2])
    IN  IF val > 0 THEN 1 ELSE IF val < 0 THEN 2 ELSE 0

\* do_segments_intersect(segment1, segment2)
do_segments_intersect(segment1, segment2) ==
    LET p1 == segment1[1]
        q1 == segment1[2]
        p2 == segment2[1]
        q2 == segment2[2]
        o1 == orientation(p1, q1, p2)
        o2 == orientation(p1, q1, q2)
        o3 == orientation(p2, q2, p1)
        o4 == orientation(p2, q2, q1)
    IN  \/ (o1 # o2 /\ o3 # o4)
        \/ (o1 = 0 /\ onSegment(p1, p2, q1))
        \/ (o2 = 0 /\ onSegment(p1, q2, q1))
        \/ (o3 = 0 /\ onSegment(p2, p1, q2))
        \/ (o4 = 0 /\ onSegment(p2, q1, q2))

\* segment_distance(segment1, segment2), squared.
segment_distance(segment1, segment2) ==
    IF do_segments_intersect(segment1, segment2) THEN Rat(0, 1)
    ELSE LET dist_1 == point_segment_distance(segment1[1], segment2)
             dist_2 == point_segment_distance(segment1[2], segment2)
             dist_3 == point_segment_distance(segment2[1], segment1)
             dist_4 == point_segment_distance(segment2[2], segment1)
         IN  RatMin(RatMin(dist_1, dist_2), RatMin(dist_3, dist_4))

\* The integer points and non-degenerate segments the kernel is run on.
Points == (0..MaxCoord) \X (0..MaxCoord)
Segments == {sg \in Points \X Points : sg[1] # sg[2]}

SegIdle ==
    /\ segA = <<>> /\ segB = <<>>
    /\ isect = <<>> /\ sdist = <<>>
    /\ spc = "idle"

InitSegments ==
    /\ segA \in Segments
    /\ segB \in Segments
    /\ isect = <<>>
    /\ sdist = <<>>
    /\ spc = "input"

\* The test driver's calls: the predicate and the distance, in both orders.
RunKernel ==
    /\ spc = "input"
    /\ isect' = <<do_segments_intersect(segA, segB),
                  do_segments_intersect(segB, segA)>>
    /\ sdist' = <<segment_distance(segA, segB), segment_distance(segB, segA)>>
    /\ spc' = "done"
    /\ UNCHANGED <<segA, segB>>
    /\ UNCHANGED <<searchVars, inflVars, buildVars, winVars>>

NextSegments == RunKernel

-----------------------------------------------------------------------------
(* alien.py (the agent's queries) and geometry.py: the collision predicates *)

\* The agent's shapes, in the order of its lengths and widths lists.
Shapes == <<"Horizontal", "Ball", "Vertical">>
ShapeId(shape) == CHOOSE i \in 1..3 : Shapes[i] = shape

\* The agent's dimensions per shape: full capsule length, and half-width
\* (the radius for the ball).  geometry.py line 362 builds its agents with
\* lengths [40, 0, 40] and widths [11, 25, 11]; the same three shapes are
\* kept here at a smaller integer scale.
AlienLengths == <<2, 0, 2>>
AlienWidths == <<1, 2, 1>>

\* alien.is_circle(), get_width(), get_centroid(), get_shape()
is_circle(alien) == alien.shape = "Ball"
get_width(alien) == AlienWidths[ShapeId(alien.shape)]
get_centroid(alien) == alien.pos
get_shape(alien) == alien.shape

\* alien.get_head_and_tail(): the capsule's axis, half its length either side
\* of the centroid; the head is the right end (Horizontal) or the upper end
\* (Vertical), as the window checks below read it.
get_head_and_tail(alien) ==
    LET half == AlienLengths[ShapeId(alien.shape)] \div 2
        x == alien.pos[1]
        y == alien.pos[2]
    IN  IF alien.shape = "Horizontal" THEN <<<<x + half, y>>, <<x - half, y>>>>
        ELSE IF alien.shape = "Vertical" THEN <<<<x, y - half>>, <<x, y + half>>>>
        ELSE <<<<x, y>>, <<x, y>>>>

\* a - granularity/sqrt(2) <= 0, for an integer a and granularity >= 0.
MinusMarginNonPos(a, granularity) == a <= 0 \/ 2 * a * a <= granularity * granularity

\* a + granularity/sqrt(2) <= 0, for an integer a and granularity >= 0.
PlusMarginNonPos(a, granularity) == a <= 0 /\ granularity * granularity <= 2 * a * a

\* a + granularity/sqrt(2) >= bound
PlusMarginReaches(a, granularity, bound) == MinusMarginNonPos(bound - a, granularity)

\* sqrt(dsq) - width - granularity/sqrt(2) <= 0, for a squared distance dsq =
\* num/den, width >= 0 and granularity >= 0: squaring once leaves
\* t <= 2 sqrt(2) width granularity den, which is squared again when t > 0.
WithinReach(dsq, width, granularity) ==
    LET t == 2 * dsq.num
             - dsq.den * (2 * width * width + granularity * granularity)
    IN  t <= 0 \/ t * t <= 8 * width * width * granularity * granularity
                            * dsq.den * dsq.den

\* The wall (startx, starty, endx, endy) as a segment.
WallSegment(wall) == <<<<wall[1], wall[2]>>, <<wall[3], wall[4]>>>>

\* does_alien_touch_wall(alien, walls, granularity)
does_alien_touch_wall(alien, walls, granularity) ==
    IF is_circle(alien)
    THEN \E i \in 1..Len(walls) :
            WithinReach(point_segment_distance(get_centroid(alien),
                                               WallSegment(walls[i])),
                        get_width(alien), granularity)
    ELSE \E i \in 1..Len(walls) :
            WithinReach(segment_distance(get_head_and_tail(alien),
                                         WallSegment(walls[i])),
                        get_width(alien), granularity)

\* does_alien_touch_goal(alien, goals): goals are (x, y, r).
does_alien_touch_goal(alien, goallist) ==
    IF is_circle(alien)
    THEN \E i \in 1..Len(goallist) :
            LET gl == goallist[i]
                c == get_centroid(alien)
                reach == get_width(alien) + gl[3]
            IN  distance(<<gl[1] - c[1], gl[2] - c[2]>>) <= reach * reach
    ELSE \E i \in 1..Len(goallist) :
            LET gl == goallist[i]
                reach == get_width(alien) + gl[3]
                dsq == point_segment_distance(<<gl[1], gl[2]>>,
                                              get_head_and_tail(alien))
            IN  dsq.num <= dsq.den * reach * reach

\* Line 115, the ball's lower-edge check: centroid[1] - radius + gran <= 0.
BallBelow(cy, radius, granularity) == PlusMarginNonPos(cy - radius, granularity)

\* is_alien_within_window(alien, window, granularity)
is_alien_within_window(alien, window, granularity) ==
    LET c == get_centroid(alien)
        d == get_width(alien)
        seg == get_head_and_tail(alien)
    IN  IF is_circle(alien)
        THEN ~ \/ MinusMarginNonPos(c[1] - d, granularity)
               \/ PlusMarginReaches(c[1] + d, granularity, window[1])
               \/ PlusMarginReaches(c[2] + d, granularity, window[2])
               \/ BallBelow(c[2], d, granularity)
        ELSE IF get_shape(alien) = "Horizontal"
        THEN ~ \/ MinusMarginNonPos(seg[2][1], granularity)
               \/ PlusMarginReaches(seg[1][1], granularity, window[1])
               \/ MinusMarginNonPos(c[2] - d, granularity)
               \/ PlusMarginReaches(c[2] + d, granularity, window[2])
        ELSE IF get_shape(alien) = "Vertical"
        THEN ~ \/ MinusMarginNonPos(c[1] - d, granularity)
               \/ PlusMarginReaches(c[1] + d, granularity, window[1])
               \/ MinusMarginNonPos(seg[1][2] - d, granularity)
               \/ PlusMarginReaches(seg[2][2] + d, granularity, window[2])
        ELSE TRUE

\* The builder's wall test (transform.py lines 56, 67, 78).
Blocked(alien, walls, window, granularity) ==
    \/ ~is_alien_within_window(alien, window, granularity)
    \/ does_alien_touch_wall(alien, walls, granularity)

\* The window and the workspaces of the inflation check.
InflWindow == <<12, 12>>
InflWallLists ==
    {<<>>, <<<<0, 0, 12, 0>>>>, <<<<0, 0, 12, 0>>, <<4, 8, 8, 8>>>>}
InflCoords == {1, 3, 6, 9, 11}

InflIdle ==
    /\ ialien = <<>> /\ iwalls = <<>> /\ igran = <<>>
    /\ iblocked = <<>> /\ ipc = "idle"

InitInflate ==
    /\ ialien \in [pos : InflCoords \X InflCoords, shape : {"Horizontal", "Ball", "Vertical"}]
    /\ iwalls \in InflWallLists
    /\ igran \in {g \in (0..MaxGran) \X (0..MaxGran) : g[1] <= g[2]}
    /\ iblocked = <<>>
    /\ ipc = "input"

\* The same pose classified at both granularities.
ClassifyTwice ==
    /\ ipc = "input"
    /\ iblocked' = <<Blocked(ialien, iwalls, InflWindow, igran[1]),
                     Blocked(ialien, iwalls, InflWindow, igran[2])>>
    /\ ipc' = "done"
    /\ UNCHANGED <<ialien, iwalls, igran>>
    /\ UNCHANGED <<searchVars, segVars, buildVars, winVars>>

NextInflate == ClassifyTwice

-----------------------------------------------------------------------------
(* transform.py: transformToMaze, with utils.py's index maps *)

\* Lines 38-39: int(window / granularity + 1), for non-negative operands.
num_positions(extent, granularity) == extent \div granularity + 1
num_x_positions == num_positions(bwindow[1], bgran)
num_y_positions == num_positions(bwindow[2], bgran)

\* Line 44: np.full((num_x_positions, num_y_positions, 3), "%").
NewMaze(nx, ny) == [k \in (0..(nx - 1)) \X (0..(ny - 1)) \X (0..2) |-> "%"]

\* configToIdx(config, [0,0,0], granularity, alien): the pose's grid indices
\* and the index of its shape.
configToIdx(alien, granularity) ==
    <<alien.pos[1] \div granularity, alien.pos[2] \div granularity,
      ShapeId(alien.shape) - 1>>

\* idxToConfig([x, y], [0,0,0], granularity, alien): the pose of the grid
\* point, with the shape of the alien passed in.
idxToConfig(x, y, granularity, alien) ==
    <<x * granularity, y * granularity, alien.shape>>

\* alien.set_alien_config([x, y, shape]) on a deep copy.
set_alien_config(x, y, shape) == [pos |-> <<x, y>>, shape |-> shape]

\* Lines 56-61, 67-72 and 78-83: the label of the repositioned copy.
Classify(alien2, goallist, walls, window, granularity) ==
    IF Blocked(alien2, walls, window, granularity) THEN "%"
    ELSE IF does_alien_touch_goal(alien2, goallist) THEN "."
    ELSE " "

\* Lines 53-55, 64-66, 75-77: the working copy for shape level m at (x, y).
WorkingCopy(m, x, y) ==
    LET cfg == idxToConfig(x, y, bgran, balien)
    IN  set_alien_config(cfg[1], cfg[2], Shapes[m + 1])

\* The label the loop computes for level m at (x, y).
CellLabel(m, x, y) == Classify(WorkingCopy(m, x, y), bgoals, bwalls, bwindow, bgran)

\* maze[m][x][y] is inside the array (the indices here are never negative).
InBounds(mz, m, x, y) == <<m, x, y>> \in DOMAIN mz

RECURSIVE WriteLevels(_, _, _, _)
\* The three assignments maze[m][x][y] = label of one loop iteration, from
\* level m on; the first one out of bounds raises and ends the function.
WriteLevels(mz, m, x, y) ==
    IF m > 2 THEN [maze |-> mz, raised |-> FALSE]
    ELSE IF ~InBounds(mz, m, x, y) THEN [maze |-> mz, raised |-> TRUE]
    ELSE WriteLevels([mz EXCEPT ![<<m, x, y>>] = CellLabel(m, x, y)], m + 1, x, y)

\* A start level that ignores config[2] and always names level 0.
StartShapeZero(cfg) == 0
\* Lines 86-88: the level of the start cell, from config[2].
StartShape(cfg) ==
    IF cfg[3] = "Vertical" THEN 2 ELSE IF cfg[3] = "Ball" THEN 1 ELSE 0

\* The arguments transformToMaze is called with.
BuildWindows == {<<14, 14>>, <<21, 14>>, <<14, 21>>, <<7, 14>>}
BuildGranularities == {7}
BuildStarts == {<<7, 7>>, <<0, 0>>, <<14, 7>>}
BuildWallLists ==
    {<<>>,
     <<<<0, 0, 0, 14>>, <<0, 0, 14, 0>>, <<14, 0, 14, 14>>, <<0, 14, 14, 14>>>>,
     <<<<7, 13, 7, 14>>>>}
BuildGoalLists == {<<>>, <<<<7, 7, 1>>>>, <<<<0, 0, 1>>, <<7, 7, 1>>>>}

BuildIdle ==
    /\ balien = <<>> /\ bgoals = <<>> /\ bwalls = <<>>
    /\ bwindow = <<>> /\ bgran = 0 /\ maze = <<>>
    /\ bx = 0 /\ by = 0 /\ config = <<>> /\ bpc = "idle"

\* Lines 24-50: the call, the allocation, and the entry into the loops.
InitBuild ==
    /\ balien \in [pos : BuildStarts, shape : {"Horizontal", "Ball", "Vertical"}]
    /\ bgoals \in BuildGoalLists
    /\ bwalls \in BuildWallLists
    /\ bwindow \in BuildWindows
    /\ bgran \in BuildGranularities
    /\ maze = NewMaze(num_x_positions, num_y_positions)
    /\ bx = 0
    /\ by = 0
    /\ config = <<>>
    /\ bpc = "loop"

\* Lines 50-83: one iteration of the nested loops, at (x, y) = (bx, by).
LoopCell ==
    /\ bpc = "loop"
    /\ LET r == WriteLevels(maze, 0, bx, by)
           lastY == by + 1 >= num_y_positions
           lastX == bx + 1 >= num_x_positions
       IN  /\ maze' = r.maze
           /\ config' = idxToConfig(bx, by, bgran, balien)
           /\ bpc' = IF r.raised THEN "IndexError"
                     ELSE IF lastY /\ lastX THEN "start" ELSE "loop"
           /\ bx' = IF ~r.raised /\ lastY /\ ~lastX THEN bx + 1 ELSE bx
           /\ by' = IF r.raised \/ (lastY /\ lastX) THEN by
                    ELSE IF lastY THEN 0 ELSE by + 1
    /\ UNCHANGED <<balien, bgoals, bwalls, bwindow, bgran>>
    /\ UNCHANGED <<searchVars, segVars, inflVars, winVars>>

\* Lines 85-95: the start cell is overwritten and the maze returned.
MarkStart ==
    /\ bpc = "start"
    /\ LET alien_start == configToIdx(balien, bgran)
           shape == StartShape(config)
           ok == InBounds(maze, shape, alien_start[1], alien_start[2])
       IN  /\ maze' = IF ok
                      THEN [maze EXCEPT ![<<shape, alien_start[1], alien_start[2]>>] = "P"]
                      ELSE maze
           /\ bpc' = IF ok THEN "done" ELSE "IndexError"
    /\ UNCHANGED <<balien, bgoals, bwalls, bwindow, bgran, bx, by, config>>
    /\ UNCHANGED <<searchVars, segVars, inflVars, winVars>>

NextBuild == LoopCell \/ MarkStart

-----------------------------------------------------------------------------
(* geometry.py: is_alien_within_window on a capsule and on its transpose *)

\* The capsule with the x and y coordinates of its centroid (and so of its
\* head and tail) swapped: a Horizontal capsule becomes a Vertical one.
Transpose(alien) ==
    [pos |-> <<alien.pos[2], alien.pos[1]>>,
     shape |-> IF alien.shape = "Horizontal" THEN "Vertical"
               ELSE IF alien.shape = "Vertical" THEN "Horizontal"
               ELSE alien.shape]

\* The window with width and height swapped.
SwapWindow(window) == <<window[2], window[1]>>

\* The windows and centroids the window check is run on.
WinWindows == {<<12, 12>>, <<12, 8>>, <<8, 12>>}
WinCoords == 1 .. 11

WinIdle ==
    /\ walien = <<>> /\ wwindow = <<>> /\ wgran = 0
    /\ wwithin = <<>> /\ wpc = "idle"

InitWindow ==
    /\ walien \in [pos : WinCoords \X WinCoords, shape : {"Horizontal", "Vertical"}]
    /\ wwindow \in WinWindows
    /\ wgran \in 0 .. MaxGran
    /\ wwithin = <<>>
    /\ wpc = "input"

\* is_alien_within_window on the capsule in its window and on the
\* transposed capsule in the transposed window.
CheckBoth ==
    /\ wpc = "input"
    /\ wwithin' = <<is_alien_within_window(walien, wwindow, wgran),
                    is_alien_within_window(Transpose(walien),
                                           SwapWindow(wwindow), wgran)>>
    /\ wpc' = "done"
    /\ UNCHANGED <<walien, wwindow, wgran>>
    /\ UNCHANGED <<searchVars, segVars, inflVars, buildVars>>

NextWindow == CheckBoth

SearchIdle ==
    /\ cost = <<>> /\ goals = {} /\ hval = <<>>
    /\ visited_states = <<>> /\ frontier = {} /\ ctr = 0
    /\ goal_reached = FALSE /\ goal = NoPred
    /\ state = <<>> /\ pc = "idle" /\ path = <<>>

InitSegmentsSpec ==
    InitSegments /\ SearchIdle /\ InflIdle /\ BuildIdle /\ WinIdle
SpecSegments == InitSegmentsSpec /\ [][NextSegments]_vars

InitInflateSpec ==
    InitInflate /\ SearchIdle /\ SegIdle /\ BuildIdle /\ WinIdle

InitBuildSpec ==
    InitBuild /\ SearchIdle /\ SegIdle /\ InflIdle /\ WinIdle
SpecBuild == InitBuildSpec /\ [][NextBuild]_vars
SpecInflate == InitInflateSpec /\ [][NextInflate]_vars

InitSearchSpec ==
    InitSearch /\ SegIdle /\ InflIdle /\ BuildIdle /\ WinIdle
SpecSearch == InitSearchSpec /\ [][NextSearch]_vars

\* The mazes the termination of astar is checked on: those with at most one
\* goal state.
InitSearchLiveSpec ==
    /\ InitSearch /\ Cardinality(goals) <= 1
    /\ SegIdle /\ InflIdle /\ BuildIdle /\ WinIdle

\* astar is sequential code: whenever its next step can run, it runs.
SpecSearchLive ==
    InitSearchLiveSpec /\ [][NextSearch]_vars /\ WF_vars(NextSearch)

InitWindowSpec ==
    InitWindow /\ SearchIdle /\ SegIdle /\ InflIdle /\ BuildIdle
SpecWindow == InitWindowSpec /\ [][NextWindow]_vars

-----------------------------------------------------------------------------
(* Properties of the search *)

\* All edges of the maze cost the same.
UniformCosts ==
    \A p, q \in DOMAIN cost : (cost[p] > 0 /\ cost[q] > 0) => cost[p] = cost[q]

\* astar has returned or raised.
Ended == pc # "loop"

\* C1: with equal edge costs and a reachable goal, astar returns a path whose
\* number of edges is the breadth-first minimum from the start to any goal:
\* 0 edges when the start is a goal, 4 edges (5 states) from (0,0) to (2,2)
\* on the obstacle-free 3 x 3 grid.
C1_UniformCostOptimal ==
    (Ended /\ UniformCosts /\ Hops(starting_state) >= 0) =>
        /\ pc = "path"
        /\ Len(path) - 1 = Hops(starting_state)
        /\ is_goal(starting_state) => path = <<starting_state>>
        /\ (cost = GridCost /\ goals = {8}) => Len(path) = 5

C1_Witness ==
    /\ pc = "path" /\ UniformCosts
    /\ cost = GridCost /\ goals = {8} /\ Len(path) = 5

C3_PathStartToGoal ==
    (pc = "path") =>
        /\ path[1] = starting_state
        /\ is_goal(path[Len(path)])
        /\ \A n \in DOMAIN visited_states :
              (visited_states[n][1] = NoPred) <=> (n = starting_state)
        /\ \A i \in 1..(Len(path) - 1) :
              /\ visited_states[path[i + 1]][1] = path[i]
              /\ path[i + 1] \in Adjacent(path[i])

C3_Witness == pc = "path" /\ Len(path) >= 3

\* A goal is about to be popped.
PopsGoal == pc = "loop" /\ LoopGuard /\ is_goal(HeapMin(frontier).s)

\* C10: the pop of a goal ends the search: its neighbors are not enumerated,
\* nothing is pushed onto the frontier and nothing is written to the visited map.
C10_GoalPopEndsSearch ==
    [][PopsGoal => (/\ ctr' = ctr
                    /\ visited_states' = visited_states
                    /\ frontier' \subseteq frontier)]_vars

\* The entry about to be popped.
Popped == HeapMin(frontier)

\* An entry is about to be popped whose own cost differs from the cost the
\* visited map records for its state.
PopsStale ==
    /\ pc = "loop" /\ LoopGuard
    /\ Popped.d # visited_states[Popped.s][2]

\* C11: a stale entry is discarded on pop: its neighbors are not enumerated
\* (no neighbor state is created), the visited map is unchanged, and nothing
\* is pushed onto the frontier.
C11_StaleEntrySkipped ==
    [][PopsStale => (/\ ctr' = ctr
                     /\ visited_states' = visited_states
                     /\ frontier' \subseteq frontier)]_vars

\* What the code does with a stale entry: it enumerates the neighbors, none
\* of which improves a record, so only the popped entry leaves the frontier.
StalePopExpandsInVain ==
    [][PopsStale => (/\ ctr' = ctr + Cardinality(Adjacent(Popped.s))
                     /\ ctr' > ctr
                     /\ visited_states' = visited_states
                     /\ frontier' = frontier \ {Popped})]_vars

\* A stale entry has been popped and expanded.
StalePopReached ==
    /\ state.s # NoPred
    /\ state.d > visited_states[state.s][2]

\* A pop is about to happen.
Pops == pc = "loop" /\ LoopGuard

\* The frontier entries for state n that the step has pushed.
PushedFor(n) == {e \in frontier' \ frontier : e.s = n}

\* The cost a neighbor n of the popped entry is generated with.
NbrCost(n) == Popped.d + EdgeCost(Popped.s, n)

\* Neighbor n of the popped entry is unseen, or recorded with a strictly
\* larger cost than it is generated with.
Betters(n) ==
    \/ n \notin DOMAIN visited_states
    \/ visited_states[n][2] > NbrCost(n)

\* C12: each neighbor of the popped state that is unseen or strictly cheaper
\* than its record is recorded with (popped state, new cost) and pushed once;
\* for every other state the record is untouched and nothing is pushed.
\* Hence no record is removed, no recorded cost increases, and the start's
\* record stays (None, 0).
C12_NeighborRule ==
    [][Pops =>
        /\ \A n \in Adjacent(Popped.s) :
              IF Betters(n)
              THEN /\ n \in DOMAIN visited_states'
                   /\ visited_states'[n] = <<Popped.s, NbrCost(n)>>
                   /\ Cardinality(PushedFor(n)) = 1
                   /\ \A e \in PushedFor(n) : e.d = NbrCost(n)
              ELSE /\ visited_states'[n] = visited_states[n]
                   /\ PushedFor(n) = {}
        /\ \A n \in Nodes \ Adjacent(Popped.s) :
              /\ PushedFor(n) = {}
              /\ n \in DOMAIN visited_states' <=> n \in DOMAIN visited_states
              /\ n \in DOMAIN visited_states =>
                    visited_states'[n] = visited_states[n]
        /\ DOMAIN visited_states \subseteq DOMAIN visited_states'
        /\ \A n \in DOMAIN visited_states :
              visited_states'[n][2] <= visited_states[n][2]
        /\ visited_states'[starting_state] = <<NoPred, 0>>
    ]_vars

\* All three cases have occurred: a state recorded on first discovery, a
\* record replaced by a cheaper one (two entries of one state are in the
\* frontier, the record holding the cheaper cost), and a neighbor left alone.
C12_Witness ==
    /\ pc = "loop"
    /\ Cardinality(DOMAIN visited_states) >= 3
    /\ \E e1, e2 \in frontier :
          /\ e1.s = e2.s /\ e1.d < e2.d
          /\ visited_states[e1.s] = <<state.s, e1.d>>
    /\ visited_states[starting_state] = <<NoPred, 0>>
    /\ starting_state \in Adjacent(state.s)

\* C15: the recorded predecessors form a tree rooted at the start: every
\* recorded state other than the start has a recorded predecessor adjacent
\* to it whose recorded cost is strictly smaller, by at least the cost of the
\* edge between them; only the start has no predecessor.
C15_PredecessorTree ==
    \A n \in DOMAIN visited_states :
        IF n = starting_state
        THEN visited_states[n] = <<NoPred, 0>>
        ELSE LET p == visited_states[n][1]
             IN  /\ p \in DOMAIN visited_states
                 /\ p \in Adjacent(n)
                 /\ visited_states[p][2] < visited_states[n][2]
                 /\ visited_states[n][2] >= visited_states[p][2] + EdgeCost(p, n)

\* A stale entry has been expanded: the record of its state was overwritten
\* on improvement, and now names a predecessor other than the start.
C15_Witness ==
    /\ StalePopReached
    /\ visited_states[state.s][1] \notin {NoPred, starting_state}
    /\ Cardinality(DOMAIN visited_states) >= 3

\* C14: astar terminates: the loop ends after finitely many pops and the
\* backtrack walk ends, so the call returns a path or None.
C14_Terminates == <>(pc \in {"path", "None"})

\* The loop has ended with a goal popped while other entries, pushed on
\* first discovery or on improvement, are still waiting in the frontier.
C14_Witness ==
    /\ pc = "path"
    /\ goal_reached
    /\ Cardinality(frontier) >= 3
    /\ ctr >= 4

-----------------------------------------------------------------------------
(* Properties of the segment kernel *)

\* The four endpoint-to-segment distances of segment_distance, squared.
EndpointDistances ==
    {point_segment_distance(segA[1], segB), point_segment_distance(segA[2], segB),
     point_segment_distance(segB[1], segA), point_segment_distance(segB[2], segA)}

\* C8: segment_distance(A, B) is 0 exactly when do_segments_intersect(A, B);
\* when the segments do not intersect, each of the four endpoint-to-segment
\* distances is strictly positive.
C8_ZeroDistanceIffIntersect ==
    (spc = "done") =>
        /\ (sdist[1].num = 0) <=> isect[1]
        /\ ~isect[1] => \A dd \in EndpointDistances : dd.num > 0

C8_Witness ==
    /\ spc = "done" /\ ~isect[1]
    /\ sdist[1].num > 0 /\ sdist[1].den > 1

\* Geometric ground truth, by the parametric form: p = a + t (b - a), 0 <= t <= 1.
CrossOf(a, b, c) == (b[1] - a[1]) * (c[2] - a[2]) - (b[2] - a[2]) * (c[1] - a[1])
DotOf(a, b, c) == (b[1] - a[1]) * (c[1] - a[1]) + (b[2] - a[2]) * (c[2] - a[2])
LiesOn(p, sg) ==
    /\ CrossOf(sg[1], sg[2], p) = 0
    /\ DotOf(sg[1], sg[2], p) >= 0
    /\ DotOf(sg[1], sg[2], p) <= DotOf(sg[1], sg[2], sg[2])
SharedEndpoints == {segA[1], segA[2]} \cap {segB[1], segB[2]}
EndpointOnOther ==
    \/ LiesOn(segA[1], segB) \/ LiesOn(segA[2], segB)
    \/ LiesOn(segB[1], segA) \/ LiesOn(segB[2], segA)
Collinear ==
    CrossOf(segA[1], segA[2], segB[1]) = 0 /\ CrossOf(segA[1], segA[2], segB[2]) = 0

\* C9: segments sharing exactly one endpoint intersect; a segment with an
\* endpoint on the other intersects it; collinear overlapping segments
\* intersect; collinear segments without a common point do not; and the
\* answer is the same for (A, B) and (B, A).
C9_BoundaryCases ==
    (spc = "done") =>
        /\ Cardinality(SharedEndpoints) = 1 => isect[1]
        /\ EndpointOnOther => isect[1]
        /\ (Collinear /\ EndpointOnOther) => isect[1]
        /\ (Collinear /\ ~EndpointOnOther) => ~isect[1]
        /\ isect[1] = isect[2]

\* Collinear segments that touch in one shared endpoint only.
C9_Witness ==
    /\ spc = "done" /\ Collinear /\ isect[1]
    /\ Cardinality(SharedEndpoints) = 1
    /\ \A p \in {segA[1], segA[2]} \ SharedEndpoints : ~LiesOn(p, segB)
    /\ \A p \in {segB[1], segB[2]} \ SharedEndpoints : ~LiesOn(p, segA)

\* Collinear segments with a gap between them are reported apart.
CollinearApartReached == spc = "done" /\ Collinear /\ ~EndpointOnOther /\ ~isect[1]

-----------------------------------------------------------------------------
(* Properties of the collision predicates *)

\* C7: a pose blocked at granularity g1 is blocked at every g2 >= g1.
C7_InflationMonotone ==
    (ipc = "done") => (iblocked[1] => iblocked[2])

\* The same, for the two capsule shapes only.
CapsuleInflationMonotone ==
    (ipc = "done" /\ ialien.shape # "Ball") => (iblocked[1] => iblocked[2])

-----------------------------------------------------------------------------
(* Properties of the builder *)

\* The cells of the label grid: level m, column x, row y.
GridCells ==
    (0..2) \X (0..(num_x_positions - 1)) \X (0..(num_y_positions - 1))

\* The cell of the agent's initial pose and shape.
StartCell ==
    <<ShapeId(balien.shape) - 1, balien.pos[1] \div bgran, balien.pos[2] \div bgran>>

\* transformToMaze has returned or raised.
BuildEnded == bpc \in {"done", "IndexError"}

\* C4: every cell (m, x, y), m in 0..2, x < num_x, y < num_y, lies inside the
\* allocated grid and no write of the builder loop falls outside it.
C4_CellsInsideGrid ==
    /\ bpc # "IndexError"
    /\ (bpc = "done") => GridCells \subseteq DOMAIN maze

\* C5: every cell of every level is labelled Wall if the repositioned agent
\* is outside the window or touches a wall, else Goal if it touches a goal,
\* else Free, each level by its own pose alone.
C5_EveryCellClassified ==
    BuildEnded =>
        \A k \in GridCells :
            /\ k \in DOMAIN maze
            /\ \/ maze[k] = CellLabel(k[1], k[2], k[3])
               \/ (bpc = "done" /\ k = StartCell)

\* The cells the loop has written so far hold the label of the rule.
WrittenCellsClassified ==
    \A k \in GridCells \cap DOMAIN maze :
        (bpc # "done" /\ (k[2] < bx \/ (k[2] = bx /\ k[3] < by)))
            => maze[k] = CellLabel(k[1], k[2], k[3])

BuildVarietyReached ==
    /\ bpc = "done"
    /\ \E k \in DOMAIN maze : maze[k] = "."
    /\ \E k \in DOMAIN maze : maze[k] = " "
    /\ \E k \in DOMAIN maze :
          /\ maze[k] = "%"
          /\ does_alien_touch_goal(WorkingCopy(k[1], k[2], k[3]), bgoals)
          /\ does_alien_touch_wall(WorkingCopy(k[1], k[2], k[3]), bwalls, bgran)

-----------------------------------------------------------------------------
(* Properties of the window check on capsules *)

\* C13: the Vertical check is the transpose of the Horizontal check: a
\* capsule in a window and the transposed capsule in the transposed window
\* get the same answer from is_alien_within_window.
C13_VerticalIsTranspose ==
    (wpc = "done") => (wwithin[1] = wwithin[2])

\* Across its axis a capsule is checked the same way in both orientations:
\* the two answers can differ only through the checks along the axis, and
\* then it is the Vertical capsule, whose end checks add the half-width, that
\* is rejected.
TransposeDiffersAlongAxis ==
    (wpc = "done" /\ wwithin[1] # wwithin[2]) =>
        LET h == IF walien.shape = "Horizontal" THEN walien ELSE Transpose(walien)
            w == IF walien.shape = "Horizontal" THEN wwindow ELSE SwapWindow(wwindow)
            d == get_width(h)
        IN  /\ is_alien_within_window(h, w, wgran)
            /\ ~is_alien_within_window(Transpose(h), SwapWindow(w), wgran)
            /\ ~MinusMarginNonPos(h.pos[2] - d, wgran)
            /\ ~PlusMarginReaches(h.pos[2] + d, wgran, w[2])

\* Both agreeing and disagreeing pairs occur in a window that is not square.
TransposeCasesReached ==
    /\ wpc = "done"
    /\ wwindow[1] # wwindow[2]
    /\ wwithin[1] /\ wwithin[2]


=============================================================================
